---- MODULE Spec2Model ----
(***************************************************************************)
(* Model of backend/Local Data Collection Testing/main.py: the heart-rate  *)
(* notification decoder (parse_hrm, parse_battery), the collector that     *)
(* holds the latest values (WhoopCollector), the ConnectionManager with    *)
(* its monitoring / reconnect loop, the relay task (send_data_periodically)*)
(* and the supervising loop of main().                                     *)
(*                                                                         *)
(* The program is cooperative (asyncio): a coroutine runs without          *)
(* interruption from one await to the next.  Every action below is one     *)
(* such segment: it starts where an awaited operation returns (or raises)  *)
(* and runs to the next await or to the end of the coroutine.              *)
(*                                                                         *)
(* Not modelled: the KeyboardInterrupt handler of main() (lines 337-352),  *)
(* and the except branch of reconnect() (lines 190-196), which no call     *)
(* inside the try can reach: connect() catches every Exception, the        *)
(* clean-up disconnect is wrapped in a bare except.                        *)
(*                                                                         *)
(* The radio link.  client.connect(), reads and start_notify either return *)
(* or raise; which one is the environment's choice.  A read or a           *)
(* subscription can only succeed on an established link, and a client      *)
(* whose disconnect() was called (it returned or raised) delivers nothing  *)
(* more.                                                                   *)
(*                                                                         *)
(* Units.  reconnect_delay is held in 1/1024 s, which is exact for the     *)
(* values the code computes (1.0 * 1.5^k, k <= 10, are multiples of        *)
(* 2^-10).  A backoff wait (delay + jitter) is held in 1/10240 s, the      *)
(* jitter factor random.uniform(0.1, 0.5) in tenths.  An RR interval       *)
(* rr / 1024.0 is held as its numerator rr (1/1024 s).                     *)
(***************************************************************************)
EXTENDS Integers, Sequences, FiniteSets, TLC

VARIABLES
    client,             \* ConnectionManager.client: "none" | "set"
    linkUp,             \* the BLE link of the current client object is established
    is_connected,       \* ConnectionManager.is_connected
    reconnect_attempts, \* ConnectionManager.reconnect_attempts
    reconnect_delay,    \* ConnectionManager.reconnect_delay (1/1024 s)
    should_reconnect,   \* ConnectionManager.should_reconnect
    hasCollector,       \* ConnectionManager.collector is not None
    data,               \* collector.data of the manager's current collector
    callbacks,          \* collector.callbacks (keys) of the current collector
    pc,                 \* position of the monitoring task and of the caller
    callOp,             \* the manager method the caller called last
    callResult,         \* what that call returned
    started,            \* main() got past the initial connect (line 306)
    stopReason,         \* why start_connection_monitoring ended
    sleepFor,           \* length of the last backoff sleep of reconnect() (1/10240 s)
    seqAttempts,        \* connect attempts begun by the current reconnect() call
    api_task,           \* main()'s api_task: [pc, cancel, stale]
    staleData,          \* data of a replaced collector the relay task still holds
    payload,            \* payload of the last send_to_api call
    pendingReconnect,   \* a reconnect succeeded and no relay tick has run since
    probeFailRun,       \* liveness probes failed on that many ticks in a row
    seqRun,             \* reconnect sequences those failed probes started
    dec,                \* one call of a decoder: its input and what it returned
    clk                 \* event-loop time: the sleeps of the relay task and of
                        \* main()'s loop, last_api_send, the last POST

vars == <<client, linkUp, is_connected, reconnect_attempts, reconnect_delay,
          should_reconnect, hasCollector, data, callbacks, pc, callOp,
          callResult, started, stopReason, sleepFor, seqAttempts, api_task,
          staleData, payload, pendingReconnect, probeFailRun, seqRun, dec, clk>>

(***************************************************************************)
(* Program constants (main.py lines 33-40).                                *)
(***************************************************************************)
DelayUnit == 2^10
MAX_RECONNECT_ATTEMPTS == 10
INITIAL_RECONNECT_DELAY == 1 * DelayUnit
MAX_RECONNECT_DELAY == 60 * DelayUnit
\* RECONNECT_BACKOFF_MULTIPLIER = 1.5 = BackoffNum / BackoffDen
BackoffNum == 3
BackoffDen == 2
\* random.uniform(0.1, 0.5), in tenths
JITTER_LO == 1
JITTER_HI == 5
Jitters == JITTER_LO .. JITTER_HI

Min(a, b) == IF a <= b THEN a ELSE b

(***************************************************************************)
(* Python's None for an int field, and for the list field.                 *)
(***************************************************************************)
None == -1
NoneList == <<None>>

WhoopData == [hr |-> None, rr_intervals |-> NoneList, battery |-> None]

(***************************************************************************)
(* parse_hrm.  A read past the end of the bytearray raises IndexError:     *)
(* ok = FALSE.  Python ints do not overflow, so no width is applied.       *)
(***************************************************************************)
\* mutant of Bit: the masks shifted by one position
BitOffByOne(flags, k) == (flags \div (2^(k + 1))) % 2 = 1

Bit(flags, k) == (flags \div (2^k)) % 2 = 1

HrmError == [ok |-> FALSE, hr |-> None, energy |-> None, rrs |-> <<>>]

\* a buffer that reads as zero past its end, for the mutants below
At(bytes, k) == IF k <= Len(bytes) THEN bytes[k] ELSE 0

RECURSIVE ReadRRsBigEndian(_, _)
\* mutant of ReadRRs: the two bytes of an RR value swapped
ReadRRsBigEndian(bytes, i) ==
    IF i + 1 < Len(bytes)
    THEN <<bytes[i + 1] * 256 + bytes[i + 2]>> \o ReadRRsBigEndian(bytes, i + 2)
    ELSE <<>>

RECURSIVE ReadRRsGreedy(_, _)
\* mutant of ReadRRs: while i < len(data), a spare byte read as an RR value
ReadRRsGreedy(bytes, i) ==
    IF i < Len(bytes)
    THEN <<At(bytes, i + 1) + At(bytes, i + 2) * 256>>
         \o ReadRRsGreedy(bytes, i + 2)
    ELSE <<>>

RECURSIVE ReadRRs(_, _)
\* the while loop of lines 59-61; i is the 0-based index of the code
ReadRRs(bytes, i) ==
    IF i + 1 < Len(bytes)
    THEN <<bytes[i + 1] + bytes[i + 2] * 256>> \o ReadRRs(bytes, i + 2)
    ELSE <<>>

\* mutant of parse_hrm: fields past the end of the payload read as zero
parse_hrm_padded(bytes) ==
    IF Len(bytes) < 1 THEN HrmError
    ELSE
    LET flags == bytes[1]
        hr16 == Bit(flags, 0)
        hasEnergy == Bit(flags, 3)
        hasRR == Bit(flags, 4)
        iHr == IF hr16 THEN 3 ELSE 2
        iEn == IF hasEnergy THEN iHr + 2 ELSE iHr
    IN  [ok |-> TRUE,
         hr |-> IF hr16 THEN At(bytes, 2) + At(bytes, 3) * 256 ELSE At(bytes, 2),
         energy |-> IF hasEnergy
                    THEN At(bytes, iHr + 1) + At(bytes, iHr + 2) * 256
                    ELSE None,
         rrs |-> IF hasRR THEN ReadRRs(bytes, iEn) ELSE <<>>]

parse_hrm(bytes) ==
    IF Len(bytes) < 1 THEN HrmError
    ELSE
    LET flags == bytes[1]
        hr16 == Bit(flags, 0)
        hasEnergy == Bit(flags, 3)
        hasRR == Bit(flags, 4)
        iHr == IF hr16 THEN 3 ELSE 2              \* i after the heart rate
        iEn == IF hasEnergy THEN iHr + 2 ELSE iHr \* i after the energy field
    IN  IF Len(bytes) < iHr \/ Len(bytes) < iEn THEN HrmError
        ELSE [ok |-> TRUE,
              hr |-> IF hr16 THEN bytes[2] + bytes[3] * 256 ELSE bytes[2],
              energy |-> IF hasEnergy
                         THEN bytes[iHr + 1] + bytes[iHr + 2] * 256
                         ELSE None,
              rrs |-> IF hasRR THEN ReadRRs(bytes, iEn) ELSE <<>>]

\* mutant of parse_battery: the length test left out of the result
parse_battery_unguarded(bytes) == IF Len(bytes) >= 1 THEN bytes[1] ELSE None

parse_battery(bytes) == IF Len(bytes) >= 1 THEN bytes[1] ELSE 0

(***************************************************************************)
(* Inputs: the notification payloads the device may deliver and the        *)
(* values a battery read may return.                                       *)
(***************************************************************************)
HrPayloads ==
    { <<16, 75, 0, 232, 3>>,   \* 8-bit HR 75, one RR of 59392, a spare byte
      <<16, 0, 0, 0>>,         \* 8-bit HR 0, one RR of 0
      <<1, 75>> }              \* 16-bit HR declared, one byte short
BatteryPayloads == { <<80>>, <<>> }

Procs == {"mon", "call"}

(***************************************************************************)
(* Backoff arithmetic of ConnectionManager.reconnect.                      *)
(***************************************************************************)
\* mutants of NextDelay: the multiplier inverted; the multiplication left out
NextDelayShrinks(d) == Min((d * BackoffDen) \div BackoffNum, MAX_RECONNECT_DELAY)

NextDelaySame(d) == Min(d, MAX_RECONNECT_DELAY)

\* lines 185-188: min(reconnect_delay * RECONNECT_BACKOFF_MULTIPLIER, MAX)
NextDelay(d) == Min((d * BackoffNum) \div BackoffDen, MAX_RECONNECT_DELAY)

\* mutant of BackoffWait: the wait is the jitter alone
BackoffWaitJitterOnly(d, j) == j * Min(d, MAX_RECONNECT_DELAY)

\* lines 173-177: delay + random.uniform(0.1, 0.5) * delay, in 1/10240 s,
\* for the jitter factor j tenths
BackoffWait(d, j) ==
    LET delay == Min(d, MAX_RECONNECT_DELAY)
    IN  10 * delay + j * delay

\* mutant of LoopGuard: the bound compared with <=
LoopGuardOffByOne(att) == att <= MAX_RECONNECT_ATTEMPTS /\ should_reconnect

\* line 160: the condition of reconnect()'s while loop
LoopGuard(att) == att < MAX_RECONNECT_ATTEMPTS /\ should_reconnect

\* line 172: a wait precedes the attempt
WaitsFirst(att) == att > 0

\* lines 115-116: what a successful handshake sets the backoff policy to
ResetAttempts == 0
\* mutant of ResetDelay: line 116 left out
KeepDelay == reconnect_delay
ResetDelay == INITIAL_RECONNECT_DELAY

\* line 224
is_device_connected == is_connected /\ client # "none"

(***************************************************************************)
(* Control state and the continuations of the manager's coroutines.        *)
(* A continuation maps a control record to the one the coroutine has at    *)
(* its next await (or at its end).  rec says that connect() was called by  *)
(* reconnect().                                                            *)
(***************************************************************************)
Ctl == [pc |-> pc, res |-> callResult, stop |-> stopReason, wait |-> sleepFor,
        seq |-> seqAttempts, client |-> client, link |-> linkUp]

\* connect(), lines 110-113: a new BleakClient, then await client.connect()
ConnectStart(p, c, rec) ==
    [c EXCEPT !.pc[p] = "c_handshake", !.client = "set", !.link = FALSE,
              !.seq = IF rec THEN @ + 1 ELSE @]

\* a return of connect() (not inside reconnect) or of reconnect() to whoever
\* called it: start_connection_monitoring (lines 208-212) or the caller
Return(p, c, val) ==
    LET d == [c EXCEPT !.wait = 0, !.seq = IF val THEN 0 ELSE @]
    IN  IF p = "mon"
        THEN IF val THEN [d EXCEPT !.pc[p] = "tick"]
             ELSE [d EXCEPT !.pc[p] = "done", !.stop = "reconnect_failed"]
        ELSE [d EXCEPT !.pc[p] = "idle", !.res = IF val THEN "true" ELSE "false"]

\* reconnect(), lines 171-180, after the clean-up of the previous client
AfterCleanup(p, c, att, dly, j) ==
    IF WaitsFirst(att)
    THEN [c EXCEPT !.pc[p] = "r_backoff", !.wait = BackoffWait(dly, j)]
    ELSE ConnectStart(p, c, TRUE)

\* reconnect(), lines 160-169: the loop condition and the clean-up
ReconnectLoop(p, c, att, dly, j) ==
    IF LoopGuard(att)
    THEN IF c.client # "none"
         THEN [c EXCEPT !.pc[p] = "r_cleanup"]
         ELSE AfterCleanup(p, c, att, dly, j)
    ELSE Return(p, c, FALSE)

\* mutant of ReconnectEntry: reconnect() counts its attempts from zero
ReconnectEntryFresh(p, c, att, dly, j) ==
    IF ~should_reconnect
    THEN Return(p, c, FALSE)
    ELSE ReconnectLoop(p, [c EXCEPT !.seq = 0, !.wait = 0], 0, dly, j)

\* reconnect(), lines 157-160
ReconnectEntry(p, c, att, dly, j) ==
    IF ~should_reconnect
    THEN Return(p, c, FALSE)
    ELSE ReconnectLoop(p, [c EXCEPT !.seq = 0, !.wait = 0], att, dly, j)

Apply(c) ==
    /\ pc' = c.pc
    /\ callResult' = c.res
    /\ stopReason' = c.stop
    /\ sleepFor' = c.wait
    /\ seqAttempts' = c.seq
    /\ client' = c.client
    /\ linkUp' = c.link

InReconnect(p) == p = "mon" \/ callOp = "reconnect"

mgrVars == <<is_connected, reconnect_attempts, reconnect_delay, should_reconnect>>
collVars == <<hasCollector, data, callbacks>>
relayVars == <<api_task, staleData, payload>>
probeVars == <<probeFailRun, seqRun>>

(***************************************************************************)
(* Bound of the two counters that follow runs of failed liveness probes.   *)
(***************************************************************************)
MaxProbeRun == 3

NoTask == [pc |-> "none", cancel |-> FALSE, stale |-> FALSE]

\* no decoder call is followed (the decoders run inside the callbacks)
NoFields == [hr16 |-> FALSE, hr |-> 0, energy |-> None, hasRR |-> FALSE,
             rrs |-> <<>>, dangling |-> None]

NoDecode == [kind |-> "none", pc |-> "new", rx |-> <<>>, fields |-> NoFields,
             out |-> HrmError, level |-> None, lastOk |-> <<>>]

\* where the calls of parse_hrm in the callback are followed: dec.rx is the
\* payload of the last notification, dec.out what parse_hrm made of it,
\* dec.lastOk the last payload of the current collector that it decoded
FollowsCallback == dec.kind = "callback"

SetDecode(d) == dec' = IF FollowsCallback THEN d ELSE dec

\* ConnectionManager.__init__ and the locals of main()
InitState ==
    /\ client = "none"
    /\ linkUp = FALSE
    /\ is_connected = FALSE
    /\ reconnect_attempts = 0
    /\ reconnect_delay = INITIAL_RECONNECT_DELAY
    /\ should_reconnect = TRUE
    /\ hasCollector = FALSE
    /\ data = WhoopData
    /\ callbacks = {}
    /\ pc = [p \in Procs |-> IF p = "mon" THEN "off" ELSE "idle"]
    /\ callOp = "none"
    /\ callResult = "none"
    /\ started = FALSE
    /\ stopReason = "none"
    /\ sleepFor = 0
    /\ seqAttempts = 0
    /\ api_task = NoTask
    /\ staleData = WhoopData
    /\ payload = WhoopData
    /\ pendingReconnect = FALSE
    /\ probeFailRun = 0
    /\ seqRun = 0

(***************************************************************************)
(* Event-loop time, in units of half a second.  clk.relayWait and          *)
(* clk.superWait are what is left of a sleep: asyncio.sleep(d) returns     *)
(* after d or later.  clk.send, clk.staleSend and clk.sincePost are the    *)
(* time since last_api_send of the current collector, of the stale one,    *)
(* and since the last call of send_to_api.  None stands for never; the     *)
(* first two are followed up to API_SEND_INTERVAL, which is all line 278   *)
(* asks of them, the third up to MaxElapsed.                               *)
(***************************************************************************)
API_SEND_INTERVAL == 1      \* 0.5 s
RELAY_SLEEP == 2            \* asyncio.sleep(1), line 281
SUPERVISOR_SLEEP == 2       \* asyncio.sleep(1), line 335
MaxElapsed == 2
MaxTasks == 2

SinkOutcomes == {"ok", "status", "raised"}

\* the sleep with t left has ended
Elapsed(t) == ~clk.on \/ t = 0

\* the clock fields of c, where time is followed
SetClock(c) == clk' = IF clk.on THEN c ELSE clk

Age(t, most) == IF t = None THEN None ELSE Min(t + 1, most)

\* time is not followed: no sleep is waited for, line 278 holds (see
\* RelayGuard)
ClockOff == [on |-> FALSE, relayWait |-> 0, superWait |-> 0, send |-> None,
             staleSend |-> None, sincePost |-> None, live |-> 0, gen |-> 0,
             sink |-> "none"]

Init == InitState /\ dec = NoDecode /\ clk = ClockOff

(***************************************************************************)
(* ConnectionManager.connect                                               *)
(***************************************************************************)
\* main(), line 306: the initial connect
InitialConnect ==
    /\ callOp = "none"
    /\ pc["call"] = "idle"
    /\ callOp' = "connect"
    /\ Apply(ConnectStart("call", Ctl, FALSE))
    /\ UNCHANGED <<mgrVars, collVars, relayVars, probeVars, started, pendingReconnect>>
    /\ UNCHANGED <<dec, clk>>

\* the relay task keeps the collector it was created on (line 327): when
\* connect() replaces the manager's collector, that one becomes stale
TaskAfterReplace ==
    IF api_task.pc \in {"wait", "posting"} /\ ~api_task.stale
    THEN [api_task EXCEPT !.stale = TRUE]
    ELSE api_task

StaleAfterReplace ==
    IF api_task.pc \in {"wait", "posting"} /\ ~api_task.stale
    THEN data
    ELSE staleData

\* line 232: last_api_send of the new collector is 0
ClockAfterReplace ==
    [clk EXCEPT !.staleSend = IF api_task.pc \in {"wait", "posting"}
                                 /\ ~api_task.stale
                              THEN clk.send ELSE @,
                !.send = None]

\* lines 113-120: client.connect() returned; up to the battery read
HandshakeOk(p) ==
    /\ pc[p] = "c_handshake"
    /\ linkUp' = TRUE
    /\ is_connected' = TRUE
    /\ reconnect_attempts' = ResetAttempts
    /\ reconnect_delay' = ResetDelay
    /\ hasCollector' = TRUE
    /\ data' = WhoopData
    /\ callbacks' = {}
    /\ api_task' = TaskAfterReplace
    /\ staleData' = StaleAfterReplace
    /\ SetClock(ClockAfterReplace)
    /\ SetDecode([dec EXCEPT !.lastOk = <<>>])
    /\ pc' = [pc EXCEPT ![p] = "c_battery"]
    /\ UNCHANGED <<client, should_reconnect, callOp, callResult, started,
                   stopReason, sleepFor, seqAttempts, payload,
                   pendingReconnect, probeVars>>

\* lines 126-129: client.connect() raised; connect() returns False.  Inside
\* reconnect() lines 184-188 follow, and the loop condition of line 160.
HandshakeFail(p) ==
    /\ pc[p] = "c_handshake"
    /\ is_connected' = FALSE
    /\ IF InReconnect(p)
       THEN /\ reconnect_attempts' = reconnect_attempts + 1
            /\ reconnect_delay' = NextDelay(reconnect_delay)
            /\ \E j \in Jitters :
                 Apply(ReconnectLoop(p, Ctl, reconnect_attempts + 1,
                                     NextDelay(reconnect_delay), j))
       ELSE /\ UNCHANGED <<reconnect_attempts, reconnect_delay>>
            /\ Apply(Return(p, Ctl, FALSE))
    /\ UNCHANGED <<should_reconnect, collVars, relayVars, probeVars, callOp,
                   started, pendingReconnect>>
    /\ UNCHANGED <<dec, clk>>

\* read_static_data, lines 250-256: the read returned v, or raised (caught)
BatteryRead(p) ==
    /\ pc[p] = "c_battery"
    /\ \/ /\ linkUp
          /\ \E v \in BatteryPayloads :
               data' = [data EXCEPT !.battery = parse_battery(v)]
       \/ data' = data
    /\ pc' = [pc EXCEPT ![p] = "c_sub_hr"]
    /\ UNCHANGED <<client, linkUp, mgrVars, hasCollector, callbacks, callOp,
                   callResult, started, stopReason, sleepFor, seqAttempts,
                   relayVars, pendingReconnect, probeVars>>
    /\ UNCHANGED <<dec, clk>>

\* subscribe_to_streaming_data, lines 264-272, HR_MEASUREMENT: start_notify
\* returned, or raised (caught)
SubscribeHr(p) ==
    /\ pc[p] = "c_sub_hr"
    /\ \/ /\ linkUp
          /\ callbacks' = callbacks \cup {"HR_MEASUREMENT"}
       \/ callbacks' = callbacks
    /\ pc' = [pc EXCEPT ![p] = "c_sub_batt"]
    /\ UNCHANGED <<client, linkUp, mgrVars, hasCollector, data, callOp,
                   callResult, started, stopReason, sleepFor, seqAttempts,
                   relayVars, pendingReconnect, probeVars>>
    /\ UNCHANGED <<dec, clk>>

\* subscribe_to_streaming_data, BATTERY; then connect() returns True
\* (line 124) and, inside reconnect(), reconnect() returns True (line 182)
SubscribeBattery(p) ==
    /\ pc[p] = "c_sub_batt"
    /\ \/ /\ linkUp
          /\ callbacks' = callbacks \cup {"BATTERY"}
       \/ callbacks' = callbacks
    /\ Apply(Return(p, Ctl, TRUE))
    /\ pendingReconnect' = (pendingReconnect \/ InReconnect(p))
    /\ UNCHANGED <<mgrVars, hasCollector, data, callOp, started, relayVars,
                   probeVars>>
    /\ UNCHANGED <<dec, clk>>

(***************************************************************************)
(* ConnectionManager.reconnect                                             *)
(***************************************************************************)
\* lines 165-180: the clean-up disconnect returned or raised (both ignored)
CleanupDone(p) ==
    /\ pc[p] = "r_cleanup"
    /\ \E j \in Jitters :
         Apply(AfterCleanup(p, [Ctl EXCEPT !.link = FALSE],
                            reconnect_attempts, reconnect_delay, j))
    /\ UNCHANGED <<mgrVars, collVars, relayVars, probeVars, callOp, started,
                   pendingReconnect>>
    /\ UNCHANGED <<dec, clk>>

\* lines 177-180: the backoff sleep is over; the attempt starts
BackoffDone(p) ==
    /\ pc[p] = "r_backoff"
    /\ Apply(ConnectStart(p, Ctl, TRUE))
    /\ UNCHANGED <<mgrVars, collVars, relayVars, probeVars, callOp, started,
                   pendingReconnect>>
    /\ UNCHANGED <<dec, clk>>

(***************************************************************************)
(* ConnectionManager.start_connection_monitoring and check_connection      *)
(***************************************************************************)
\* main(), line 312: the monitoring task is created after a connect that
\* returned True
StartMonitoring ==
    /\ pc["call"] = "idle"
    /\ callOp = "connect"
    /\ callResult = "true"
    /\ pc["mon"] \in {"off", "done"}
    /\ pc' = [pc EXCEPT !["mon"] = "tick"]
    /\ started' = TRUE
    /\ callResult' = "none"
    /\ stopReason' = "none"
    /\ UNCHANGED <<client, linkUp, mgrVars, collVars, callOp, sleepFor,
                   seqAttempts, relayVars, pendingReconnect, probeVars>>
    /\ UNCHANGED <<dec, clk>>

\* lines 206-210: the check failed; is_connected = False, then reconnect()
Lost ==
    /\ is_connected' = FALSE
    /\ probeFailRun' = Min(probeFailRun + 1, MaxProbeRun)
    /\ seqRun' = Min(seqRun + 1, MaxProbeRun)
    /\ \E j \in Jitters :
         Apply(ReconnectEntry("mon", Ctl, reconnect_attempts, reconnect_delay, j))
    /\ UNCHANGED <<reconnect_attempts, reconnect_delay, should_reconnect,
                   collVars, relayVars, callOp, started, pendingReconnect>>

\* mutant of MonitorGuard: while True
MonitorGuardAlways == TRUE

\* line 203: the condition of start_connection_monitoring's while loop
MonitorGuard == should_reconnect

\* lines 203-205 and 144-149: the task starts, or its sleep of line 212 ends
MonitorTick ==
    /\ pc["mon"] = "tick"
    /\ IF ~MonitorGuard
       THEN /\ pc' = [pc EXCEPT !["mon"] = "done"]
            /\ stopReason' = "shutdown"
            /\ UNCHANGED <<client, linkUp, mgrVars, collVars, callOp,
                           callResult, started, sleepFor, seqAttempts,
                           relayVars, pendingReconnect, probeVars>>
       ELSE IF client = "none" \/ ~is_connected
       THEN Lost
       ELSE /\ pc' = [pc EXCEPT !["mon"] = "probe"]
            /\ UNCHANGED <<client, linkUp, mgrVars, collVars, callOp,
                           callResult, started, stopReason, sleepFor,
                           seqAttempts, relayVars, pendingReconnect, probeVars>>
    /\ UNCHANGED <<dec, clk>>

\* lines 149-150 and 212: the probe read returned
ProbeOk ==
    /\ pc["mon"] = "probe"
    /\ linkUp
    /\ pc' = [pc EXCEPT !["mon"] = "tick"]
    /\ probeFailRun' = 0
    /\ seqRun' = 0
    /\ UNCHANGED <<client, linkUp, mgrVars, collVars, callOp, callResult,
                   started, stopReason, sleepFor, seqAttempts, relayVars,
                   pendingReconnect>>
    /\ UNCHANGED <<dec, clk>>

\* lines 151-153 and 206-208: the probe read raised
ProbeFail ==
    /\ pc["mon"] = "probe"
    /\ Lost
    /\ UNCHANGED <<dec, clk>>

(***************************************************************************)
(* Calls of the manager's methods by a caller other than main(): a later   *)
(* connect(), reconnect() and disconnect().  connect() and reconnect() are *)
(* called while no monitoring task runs; disconnect() at any time.         *)
(***************************************************************************)
CallConnect ==
    /\ callOp # "none"
    /\ pc["call"] = "idle"
    /\ pc["mon"] \in {"off", "done"}
    /\ callOp' = "connect"
    /\ Apply(ConnectStart("call", [Ctl EXCEPT !.res = "none"], FALSE))
    /\ UNCHANGED <<mgrVars, collVars, relayVars, probeVars, started, pendingReconnect>>
    /\ UNCHANGED <<dec, clk>>

CallReconnect ==
    /\ pc["call"] = "idle"
    /\ pc["mon"] \in {"off", "done"}
    /\ callOp' = "reconnect"
    /\ \E j \in Jitters :
         Apply(ReconnectEntry("call", [Ctl EXCEPT !.res = "none"],
                              reconnect_attempts, reconnect_delay, j))
    /\ UNCHANGED <<mgrVars, collVars, relayVars, probeVars, started, pendingReconnect>>
    /\ UNCHANGED <<dec, clk>>

\* mutant of DisconnectOutcome: the teardown's error leaves disconnect()
DisconnectPropagates(raised) ==
    IF raised
    THEN [conn |-> is_connected, res |-> "raised"]
    ELSE [conn |-> FALSE, res |-> "returned"]

\* lines 135-140: what disconnect() leaves once the teardown returned
\* (raised = FALSE) or raised (raised = TRUE, the error is logged, line 139)
DisconnectOutcome(raised) ==
    [conn |-> FALSE, res |-> IF raised THEN "logged" ELSE "returned"]

\* lines 133-136, and line 140 when there is nothing to tear down
CallDisconnect ==
    /\ pc["call"] = "idle"
    /\ should_reconnect' = FALSE
    /\ callOp' = "disconnect"
    /\ IF client # "none" /\ is_connected
       THEN /\ pc' = [pc EXCEPT !["call"] = "d_teardown"]
            /\ callResult' = "none"
            /\ UNCHANGED is_connected
       ELSE /\ is_connected' = DisconnectOutcome(FALSE).conn
            /\ callResult' = DisconnectOutcome(FALSE).res
            /\ UNCHANGED pc
    /\ UNCHANGED <<client, linkUp, reconnect_attempts, reconnect_delay,
                   collVars, started, stopReason, sleepFor, seqAttempts,
                   relayVars, pendingReconnect, probeVars>>
    /\ UNCHANGED <<dec, clk>>

\* lines 136-140: client.disconnect() returned or raised
TeardownDone ==
    /\ pc["call"] = "d_teardown"
    /\ \E raised \in BOOLEAN :
         /\ is_connected' = DisconnectOutcome(raised).conn
         /\ callResult' = DisconnectOutcome(raised).res
    /\ linkUp' = FALSE
    /\ pc' = [pc EXCEPT !["call"] = "idle"]
    /\ UNCHANGED <<client, reconnect_attempts, reconnect_delay,
                   should_reconnect, collVars, callOp, started, stopReason,
                   sleepFor, seqAttempts, relayVars, pendingReconnect,
                   probeVars>>
    /\ UNCHANGED <<dec, clk>>

(***************************************************************************)
(* Notification callbacks (WhoopCollector.create_callback)                 *)
(***************************************************************************)
\* mutants of MergeHr: the assignment of line 239 left out; a value once
\* set is kept
MergeHrFirstWins(d, r) ==
    IF r.ok /\ d.hr = None
    THEN [d EXCEPT !.hr = r.hr, !.rr_intervals = r.rrs] ELSE d

MergeHrOnly(d, r) ==
    IF r.ok THEN [d EXCEPT !.hr = r.hr] ELSE d

\* lines 237-239: an IndexError of parse_hrm leaves the callback before
\* any assignment
MergeHr(d, r) ==
    IF r.ok THEN [d EXCEPT !.hr = r.hr, !.rr_intervals = r.rrs] ELSE d

\* lines 235-240: the callback of HR_MEASUREMENT is called with payload b
NotifyHr ==
    /\ "HR_MEASUREMENT" \in callbacks
    /\ linkUp
    /\ \E b \in HrPayloads :
         /\ data' = MergeHr(data, parse_hrm(b))
         /\ SetDecode([dec EXCEPT !.rx = b, !.out = parse_hrm(b),
                                  !.lastOk = IF parse_hrm(b).ok THEN b ELSE @])
    /\ UNCHANGED <<client, linkUp, mgrVars, hasCollector, callbacks, pc,
                   callOp, callResult, started, stopReason, sleepFor,
                   seqAttempts, relayVars, pendingReconnect, probeVars>>
    /\ UNCHANGED clk

\* lines 242-244
NotifyBattery ==
    /\ "BATTERY" \in callbacks
    /\ linkUp
    /\ \E b \in BatteryPayloads :
         data' = [data EXCEPT !.battery = parse_battery(b)]
    /\ UNCHANGED <<client, linkUp, mgrVars, hasCollector, callbacks, pc,
                   callOp, callResult, started, stopReason, sleepFor,
                   seqAttempts, relayVars, pendingReconnect, probeVars>>
    /\ UNCHANGED <<dec, clk>>

(***************************************************************************)
(* main()'s supervising loop and the relay task                            *)
(***************************************************************************)
\* mutant of TaskDone: line 326 left out
TaskDoneAlways == TRUE

\* line 326: api_task is None or api_task.done()
TaskDone == api_task.pc \in {"none", "done"}

\* lines 321-335: one iteration
SupervisorTick ==
    /\ started
    /\ Elapsed(clk.superWait)
    /\ IF hasCollector /\ is_device_connected
       THEN IF TaskDone
            THEN /\ api_task' = [pc |-> "wait", cancel |-> FALSE, stale |-> FALSE]
                 /\ SetClock([clk EXCEPT !.superWait = SUPERVISOR_SLEEP,
                                         !.relayWait = 0,
                                         !.live = Min(@ + 1, MaxTasks),
                                         !.gen = Min(@ + 1, MaxTasks)])
            ELSE /\ api_task' = api_task
                 /\ SetClock([clk EXCEPT !.superWait = SUPERVISOR_SLEEP])
       ELSE /\ IF ~TaskDone
               THEN api_task' = [api_task EXCEPT !.cancel = TRUE]
               ELSE api_task' = api_task
            /\ SetClock([clk EXCEPT !.superWait = SUPERVISOR_SLEEP])
    /\ UNCHANGED <<client, linkUp, mgrVars, collVars, pc, callOp, callResult,
                   started, stopReason, sleepFor, seqAttempts, staleData,
                   payload, pendingReconnect, probeVars>>
    /\ UNCHANGED dec

\* the snapshot the relay task reads: self.data of the collector it runs on
RelayData == IF api_task.stale THEN staleData ELSE data

\* time since last_api_send of that collector
RelaySend == IF api_task.stale THEN clk.staleSend ELSE clk.send

\* send_data_periodically, line 278: current_time - last_api_send >=
\* API_SEND_INTERVAL.  last_api_send is 0 on a new collector.  Where time
\* is not followed the guard holds: asyncio.sleep(1) of line 281 lasts
\* longer than API_SEND_INTERVAL.
RelayGuard ==
    \/ ~clk.on
    \/ RelaySend = None
    \/ RelaySend >= API_SEND_INTERVAL

\* line 279 and the call of line 280, on the clock
ClockAfterSend ==
    [clk EXCEPT !.send = IF api_task.stale THEN @ ELSE 0,
                !.staleSend = IF api_task.stale THEN 0 ELSE @,
                !.sincePost = 0]

\* lines 276-280 and 76-86: a tick of the relay loop, up to the POST; with
\* the guard false, up to the sleep of line 281
RelayTick ==
    /\ api_task.pc = "wait"
    /\ ~api_task.cancel
    /\ Elapsed(clk.relayWait)
    /\ IF RelayGuard
       THEN /\ payload' = RelayData
            /\ api_task' = [api_task EXCEPT !.pc = "posting"]
            /\ SetClock(ClockAfterSend)
       ELSE /\ UNCHANGED <<payload, api_task>>
            /\ SetClock([clk EXCEPT !.relayWait = RELAY_SLEEP])
    /\ pendingReconnect' = FALSE
    /\ UNCHANGED <<client, linkUp, mgrVars, collVars, pc, callOp, callResult,
                   started, stopReason, sleepFor, seqAttempts, staleData,
                   probeVars>>
    /\ UNCHANGED dec

\* mutant of AfterPost: the except clause of line 91 left out
AfterPostUncaught(outcome) == IF outcome = "raised" THEN "done" ELSE "wait"

\* lines 87-92: send_to_api returns to the loop whatever the POST did
AfterPost(outcome) == "wait"

\* lines 86-92 and 281: the POST returned 200 or another status, or raised
\* (caught); the task goes to sleep
PostDone ==
    /\ api_task.pc = "posting"
    /\ ~api_task.cancel
    /\ \E outcome \in SinkOutcomes :
         /\ api_task' = [api_task EXCEPT !.pc = AfterPost(outcome)]
         /\ SetClock([clk EXCEPT !.relayWait = RELAY_SLEEP, !.sink = outcome])
    /\ payload' = WhoopData
    /\ UNCHANGED <<client, linkUp, mgrVars, collVars, pc, callOp, callResult,
                   started, stopReason, sleepFor, seqAttempts, staleData,
                   pendingReconnect, probeVars>>
    /\ UNCHANGED dec

\* api_task.cancel() of line 332 takes effect where the task is suspended
RelayCancelled ==
    /\ api_task.cancel
    /\ api_task.pc \in {"wait", "posting"}
    /\ api_task' = [pc |-> "done", cancel |-> FALSE, stale |-> FALSE]
    /\ SetClock([clk EXCEPT !.live = @ - 1, !.relayWait = 0,
                            !.staleSend = None])
    /\ staleData' = WhoopData
    /\ payload' = WhoopData
    /\ UNCHANGED <<client, linkUp, mgrVars, collVars, pc, callOp, callResult,
                   started, stopReason, sleepFor, seqAttempts,
                   pendingReconnect, probeVars>>
    /\ UNCHANGED dec

\* half a second passes
Tick ==
    /\ clk.on
    /\ clk' = [clk EXCEPT !.relayWait = IF @ > 0 THEN @ - 1 ELSE 0,
                          !.superWait = IF @ > 0 THEN @ - 1 ELSE 0,
                          !.send = Age(@, API_SEND_INTERVAL),
                          !.staleSend = Age(@, API_SEND_INTERVAL),
                          !.sincePost = Age(@, MaxElapsed)]
    /\ UNCHANGED <<client, linkUp, mgrVars, collVars, pc, callOp, callResult,
                   started, stopReason, sleepFor, seqAttempts, relayVars,
                   pendingReconnect, probeVars, dec>>

(***************************************************************************)
(* Specifications.  Spec is the program main() runs.  SpecManager is the   *)
(* ConnectionManager alone (no relay, no notifications, which write none   *)
(* of its fields) under a caller that uses its methods directly.  Neither  *)
(* follows event-loop time (clk.on is FALSE) or single decoder calls;      *)
(* SpecRelay, SpecNotify and SpecDecode, further down, do.                 *)
(***************************************************************************)
Next ==
    \/ InitialConnect
    \/ \E p \in Procs : HandshakeOk(p)
    \/ \E p \in Procs : HandshakeFail(p)
    \/ \E p \in Procs : BatteryRead(p)
    \/ \E p \in Procs : SubscribeHr(p)
    \/ \E p \in Procs : SubscribeBattery(p)
    \/ \E p \in Procs : CleanupDone(p)
    \/ \E p \in Procs : BackoffDone(p)
    \/ StartMonitoring
    \/ MonitorTick
    \/ ProbeOk
    \/ ProbeFail
    \/ NotifyHr
    \/ NotifyBattery
    \/ SupervisorTick
    \/ RelayTick
    \/ PostDone
    \/ RelayCancelled

NextManager ==
    \/ InitialConnect
    \/ \E p \in Procs : HandshakeOk(p)
    \/ \E p \in Procs : HandshakeFail(p)
    \/ \E p \in Procs : BatteryRead(p)
    \/ \E p \in Procs : SubscribeHr(p)
    \/ \E p \in Procs : SubscribeBattery(p)
    \/ \E p \in Procs : CleanupDone(p)
    \/ \E p \in Procs : BackoffDone(p)
    \/ StartMonitoring
    \/ MonitorTick
    \/ ProbeOk
    \/ ProbeFail
    \/ CallConnect
    \/ CallReconnect
    \/ CallDisconnect
    \/ TeardownDone

Spec == Init /\ [][Next]_vars

SpecManager == Init /\ [][NextManager]_vars

(***************************************************************************)
(* Properties                                                              *)
(***************************************************************************)
\* the monitoring task is created and the caller has called nothing since
Untouched == callOp = "connect" /\ callResult = "none" /\ pc["call"] = "idle"

\* reconnect() reported failure to the monitoring loop, which stopped
Failed == pc["mon"] = "done" /\ stopReason = "reconnect_failed" /\ Untouched

\* a step in which the caller calls a method of the manager
CallerActs == callOp' # callOp \/ pc'["call"] # "idle"

\* C1: a reconnect sequence the monitoring loop starts and in which every
\* connect attempt fails makes exactly MAX_RECONNECT_ATTEMPTS attempts, then
\* reconnect() reports failure and the loop stops; from then on the manager
\* stays not connected and starts no connect attempt until the caller calls.
C1_ExhaustedStaysFailed ==
    /\ [](Failed => /\ seqAttempts = MAX_RECONNECT_ATTEMPTS
                    /\ reconnect_attempts = MAX_RECONNECT_ATTEMPTS
                    /\ ~is_connected)
    /\ [][Failed => \/ CallerActs
                    \/ /\ ~is_connected'
                       /\ pc'["mon"] = "done"
                       /\ seqAttempts' = seqAttempts]_vars

C1_Witness ==
    Failed /\ seqAttempts = MAX_RECONNECT_ATTEMPTS /\ ~is_connected

\* C4: when disconnect() has been called while reconnect() sleeps in a
\* backoff wait, the connect attempt scheduled after the sleep never starts.
C4_BackoffAborted ==
    [][\A p \in Procs :
         (pc[p] = "r_backoff" /\ ~should_reconnect) => pc'[p] # "c_handshake"]_vars

\* C5: disconnect() returns normally, whether the teardown returned or
\* raised, and at its return is_connected and should_reconnect are False.
C5_DisconnectCompletes ==
    [][(TeardownDone \/ (CallDisconnect /\ pc'["call"] = "idle"))
         => /\ callResult' \in {"returned", "logged"}
            /\ ~is_connected'
            /\ ~should_reconnect']_vars

C5_Witness ==
    /\ callOp = "disconnect"
    /\ callResult = "logged"
    /\ pc["call"] = "idle"
    /\ ~is_connected
    /\ ~should_reconnect

\* C6: reconnect_delay and reconnect_attempts stay within their bounds, and
\* only a successful handshake (the reset) lowers reconnect_delay.
C6_DelayMonotoneBounded ==
    /\ [](/\ INITIAL_RECONNECT_DELAY <= reconnect_delay
          /\ reconnect_delay <= MAX_RECONNECT_DELAY
          /\ 0 <= reconnect_attempts
          /\ reconnect_attempts <= MAX_RECONNECT_ATTEMPTS)
    /\ [][\/ \E p \in Procs : pc[p] = "c_handshake" /\ pc'[p] = "c_battery"
          \/ reconnect_delay' >= reconnect_delay]_vars

C6_Witness ==
    /\ reconnect_attempts = MAX_RECONNECT_ATTEMPTS
    /\ reconnect_delay > INITIAL_RECONNECT_DELAY
    /\ seqAttempts = MAX_RECONNECT_ATTEMPTS

\* C7: every backoff wait lasts between delay and 1.5 x delay, delay being
\* reconnect_delay capped at MAX_RECONNECT_DELAY; every attempt of a
\* reconnect sequence but the first starts at the end of such a wait, and
\* the first starts without one.
C7_JitteredWait ==
    /\ [](\A p \in Procs :
            pc[p] = "r_backoff" =>
              LET delay == Min(reconnect_delay, MAX_RECONNECT_DELAY)
              IN  10 * delay <= sleepFor /\ sleepFor <= 15 * delay)
    /\ [][\A p \in Procs :
            (pc'[p] = "c_handshake" /\ pc[p] # "c_handshake"
               /\ (p = "mon" \/ callOp' = "reconnect"))
            => (seqAttempts' > 1 <=> pc[p] = "r_backoff")]_vars

C7_Witness ==
    /\ pc["mon"] = "r_backoff"
    /\ reconnect_delay > INITIAL_RECONNECT_DELAY
    /\ sleepFor = 15 * reconnect_delay

\* C8: a successful handshake resets reconnect_attempts to 0 and
\* reconnect_delay to INITIAL_RECONNECT_DELAY.
C8_HandshakeResets ==
    [][\A p \in Procs :
         (pc[p] = "c_handshake" /\ pc'[p] = "c_battery")
         => reconnect_attempts' = 0 /\ reconnect_delay' = INITIAL_RECONNECT_DELAY]_vars

C8_Witness ==
    /\ pc["mon"] = "c_battery"
    /\ seqAttempts > 2
    /\ reconnect_attempts = 0
    /\ reconnect_delay = INITIAL_RECONNECT_DELAY

C2_NoSinkWhileDown ==
    [][(api_task.pc = "wait" /\ api_task'.pc = "posting") => is_device_connected]_vars

\* C3: the first relay tick after a successful reconnect makes one sink
\* call, with the values of the collector the manager owns at that tick.
C3_FirstTickLatestSnapshot ==
    [][(RelayTick /\ pendingReconnect)
         => /\ api_task'.pc = "posting"
            /\ ~api_task.stale
            /\ payload' = data]_vars

\* C10: the snapshot never holds a heart rate <= 0 nor an RR interval <= 0.
C10_FilteredSnapshot ==
    /\ data.hr = None \/ data.hr > 0
    /\ \/ data.rr_intervals = NoneList
       \/ \A i \in 1 .. Len(data.rr_intervals) : data.rr_intervals[i] > 0

(***************************************************************************)
(* C11                                                                     *)
(***************************************************************************)
\* hr and rr_intervals of d were written by one HR notification, or by none
FromOneNotification(d) ==
    \/ d.hr = None /\ d.rr_intervals = NoneList
    \/ \E b \in HrPayloads :
         /\ parse_hrm(b).ok
         /\ d.hr = parse_hrm(b).hr
         /\ d.rr_intervals = parse_hrm(b).rrs

\* C11: the heart rate and the RR list of every payload handed to the sink
\* come from one and the same HR notification, or are both unset, however
\* the notifications interleave with the relay's ticks.
C11_NoTornPayload ==
    api_task.pc = "posting" => FromOneNotification(payload)

\* a payload of one notification is in flight while the next notification
\* has already replaced both fields of the snapshot
C11_Witness ==
    /\ api_task.pc = "posting"
    /\ ~api_task.stale
    /\ payload.hr = 75
    /\ payload.rr_intervals = <<59392>>
    /\ data.hr = 0
    /\ data.rr_intervals = <<0>>

(***************************************************************************)
(* The decoders on their own.  SpecDecode follows one call of parse_hrm or *)
(* parse_battery: the payload is any byte sequence of DecodeStarts, given  *)
(* as bytes or as the fields a device encodes into bytes.                  *)
(***************************************************************************)
MaxLen == 5     \* longest payload given as bytes
MaxRR == 2      \* most RR values of an encoded payload

FlagBytes == {0, 1, 6, 8, 9, 16, 17, 24, 25}
DataBytes == {0, 3, 50, 75, 232}
BatteryBytes == {0, 50, 100, 101, 200, 255}

HrmInputs ==
    {<<>>} \cup
    { <<f>> \o t : f \in FlagBytes,
                   t \in UNION { [1..n -> DataBytes] : n \in 0..(MaxLen - 1) } }

BatteryInputs == UNION { [1..n -> BatteryBytes] : n \in 0..2 }

Hr8Values == {0, 75, 255}
Hr16Values == {0, 75, 256, 65535}
EnergyValues == {None, 0, 50, 65535}
RRValues == {0, 1000, 65535}

\* the measurements a device may encode: an 8-bit heart rate fits a byte,
\* RR values are present only with flag bit 4, a spare byte may follow them
HrmFields ==
    { [hr16 |-> h, hr |-> v, energy |-> e, hasRR |-> r, rrs |-> s,
       dangling |-> d] :
        h \in BOOLEAN, v \in Hr16Values \cup Hr8Values, e \in EnergyValues,
        r \in BOOLEAN, s \in UNION { [1..n -> RRValues] : n \in 0..MaxRR },
        d \in {None, 7} }

WellFormed(f) ==
    /\ f.hr \in (IF f.hr16 THEN Hr16Values ELSE Hr8Values)
    /\ ~f.hasRR => f.rrs = <<>> /\ f.dangling = None

LE16(v) == <<v % 256, v \div 256>>

RECURSIVE EncodeRRs(_)
EncodeRRs(s) == IF s = <<>> THEN <<>> ELSE LE16(Head(s)) \o EncodeRRs(Tail(s))

\* the Heart Rate Measurement layout parse_hrm reads: flags, heart rate,
\* energy expended, RR values, all little-endian
Encode(f) ==
    <<(IF f.hr16 THEN 1 ELSE 0) + (IF f.energy # None THEN 8 ELSE 0)
        + (IF f.hasRR THEN 16 ELSE 0)>>
    \o (IF f.hr16 THEN LE16(f.hr) ELSE <<f.hr>>)
    \o (IF f.energy # None THEN LE16(f.energy) ELSE <<>>)
    \o EncodeRRs(f.rrs)
    \o (IF f.dangling # None THEN <<f.dangling>> ELSE <<>>)

DecodeStarts ==
    { [NoDecode EXCEPT !.kind = "hrm", !.rx = b] : b \in HrmInputs }
    \cup { [NoDecode EXCEPT !.kind = "fields", !.fields = f] :
             f \in { g \in HrmFields : WellFormed(g) } }
    \cup { [NoDecode EXCEPT !.kind = "battery", !.rx = b] : b \in BatteryInputs }

InitDecode == InitState /\ dec \in DecodeStarts /\ clk = ClockOff

progVars == <<client, linkUp, is_connected, reconnect_attempts, reconnect_delay,
              should_reconnect, hasCollector, data, callbacks, pc, callOp,
              callResult, started, stopReason, sleepFor, seqAttempts, api_task,
              staleData, payload, pendingReconnect, probeFailRun, seqRun,
              clk>>

\* the device puts the measurement on the wire
EncodeHrm ==
    /\ dec.kind = "fields"
    /\ dec.pc = "new"
    /\ dec' = [dec EXCEPT !.rx = Encode(dec.fields), !.pc = "encoded"]
    /\ UNCHANGED progVars

\* line 237: parse_hrm(bytearray(data))
DecodeHrm ==
    /\ \/ dec.kind = "hrm" /\ dec.pc = "new"
       \/ dec.kind = "fields" /\ dec.pc = "encoded"
    /\ dec' = [dec EXCEPT !.out = parse_hrm(dec.rx), !.pc = "decoded"]
    /\ UNCHANGED progVars

\* lines 243 and 253: parse_battery(bytearray(data))
DecodeBattery ==
    /\ dec.kind = "battery"
    /\ dec.pc = "new"
    /\ dec' = [dec EXCEPT !.level = parse_battery(dec.rx), !.pc = "decoded"]
    /\ UNCHANGED progVars

NextDecode ==
    \/ EncodeHrm
    \/ DecodeHrm
    \/ DecodeBattery

SpecDecode == InitDecode /\ [][NextDecode]_vars

(***************************************************************************)
(* C12 .. C16: the decoders                                                *)
(***************************************************************************)
\* the bytes the flags of payload b announce before any RR value: the flags
\* byte, a heart rate of one or two bytes, two bytes of energy with bit 3
RequiredLen(b) ==
    IF b = <<>> THEN 1
    ELSE 1 + (IF b[1] % 2 = 1 THEN 2 ELSE 1)
           + (IF (b[1] \div 8) % 2 = 1 THEN 2 ELSE 0)

Decoded(k) == dec.kind = k /\ dec.pc = "decoded"

\* C12: parse_hrm on a payload shorter than its flags require (empty, heart
\* rate or energy missing or cut short) ends in the error outcome and
\* returns no field.
C12_ShortPayloadFails ==
    (Decoded("hrm") /\ Len(dec.rx) < RequiredLen(dec.rx)) => dec.out = HrmError

\* the second byte of the energy field is missing
C12_Witness ==
    /\ Decoded("hrm")
    /\ dec.rx = <<9, 75, 0, 50>>
    /\ ~dec.out.ok

ScenarioA == <<16, 75, 0, 232, 3>>

\* C13 as stated: the bytes 10 4B 00 E8 03 decode to heart rate 75, no
\* energy and the one RR value 1000.
C13_ScenarioA_RR1000 ==
    (Decoded("hrm") /\ dec.rx = ScenarioA)
        => dec.out = [ok |-> TRUE, hr |-> 75, energy |-> None, rrs |-> <<1000>>]

\* C13: the bytes 10 4B 00 E8 03 decode to heart rate 75, no energy and the
\* one RR value 59392 (00 E8 little-endian, 58 s); the last byte is spare.
C13_ScenarioA_RR59392 ==
    (Decoded("hrm") /\ dec.rx = ScenarioA)
        => dec.out = [ok |-> TRUE, hr |-> 75, energy |-> None, rrs |-> <<59392>>]

C13_Witness ==
    /\ Decoded("hrm")
    /\ dec.rx = ScenarioA
    /\ dec.out.ok
    /\ Len(dec.out.rrs) = 1

ScenarioB == <<9, 75, 0, 50, 0>>

\* C14: the bytes 09 4B 00 32 00 decode to heart rate 75, energy 50 and an
\* empty RR list.
C14_ScenarioB ==
    (Decoded("hrm") /\ dec.rx = ScenarioB)
        => dec.out = [ok |-> TRUE, hr |-> 75, energy |-> 50, rrs |-> <<>>]

C14_Witness ==
    /\ Decoded("hrm")
    /\ dec.rx = ScenarioB
    /\ dec.out.energy = 50

\* C15: parse_hrm returns the heart rate, the energy (or none) and the RR
\* values, in order, of every well-formed payload; a single spare byte after
\* the RR values is dropped without an error.  RR values are compared as
\* the 16-bit numerators of value/1024.
C15_RoundTrip ==
    Decoded("fields")
        => dec.out = [ok |-> TRUE, hr |-> dec.fields.hr,
                      energy |-> dec.fields.energy, rrs |-> dec.fields.rrs]

\* 16-bit heart rate, energy, two RR values and a spare byte
C15_Witness ==
    /\ Decoded("fields")
    /\ dec.fields.hr16 /\ dec.fields.hr = 256
    /\ dec.fields.energy = 50
    /\ dec.fields.rrs = <<1000, 65535>>
    /\ dec.fields.dangling # None
    /\ Len(dec.rx) = 10
    /\ dec.out.rrs = <<1000, 65535>>

\* what C16 says parse_battery returns for payload b
BatteryByte(b) == IF b = <<>> THEN 0 ELSE b[1]

\* C16 as stated: parse_battery returns 0 for an empty payload and the first
\* byte otherwise, and that is between 0 and 100 for every input.
C16_AlwaysPercentage ==
    Decoded("battery")
        => dec.level = BatteryByte(dec.rx) /\ dec.level \in 0..100

\* C16: parse_battery returns 0 for an empty payload and the first byte
\* otherwise, unchecked: between 0 and 255, and at most 100 exactly when
\* the byte is.
C16_FirstByteUnchecked ==
    Decoded("battery")
        => /\ dec.level = BatteryByte(dec.rx)
           /\ dec.level \in 0..255
           /\ (dec.level > 100) = (dec.rx # <<>> /\ dec.rx[1] > 100)

\* a first byte that is no percentage comes back as it is
C16_Witness ==
    /\ Decoded("battery")
    /\ dec.rx = <<200>>
    /\ dec.level = 200

(***************************************************************************)
(* C17 .. C20                                                              *)
(***************************************************************************)
\* the caller's last call was disconnect() and it has returned
DisconnectReturned == callOp = "disconnect" /\ pc["call"] = "idle"

\* C17: once disconnect() has returned, is_device_connected() is false in
\* every state until the caller calls the manager again, wherever the
\* monitoring loop was when disconnect() ran (the claim adds that the link
\* handle is cleared; that part is left out, so a violation of this formula
\* is a violation of the claim).
C17_StaysDisconnected == DisconnectReturned => ~is_device_connected

\* C18: a channel of the snapshot that holds a value holds one after every
\* step, a probe failure followed by a successful reconnect included.
C18_NeverRolledBack ==
    [][/\ data.hr # None => data'.hr # None
       /\ data.rr_intervals # NoneList => data'.rr_intervals # NoneList
       /\ data.battery # None => data'.battery # None]_vars

\* a step of the monitoring task: an awaited link operation or sleep of
\* the task returns
MonitorRuns ==
    \/ MonitorTick
    \/ ProbeOk
    \/ ProbeFail
    \/ HandshakeOk("mon")
    \/ HandshakeFail("mon")
    \/ BatteryRead("mon")
    \/ SubscribeHr("mon")
    \/ SubscribeBattery("mon")
    \/ CleanupDone("mon")
    \/ BackoffDone("mon")

\* the manager under an event loop on which no await of the monitoring task
\* lasts forever
SpecManagerFair == SpecManager /\ WF_vars(MonitorRuns)

\* C19: once should_reconnect is False the monitoring task comes to its end,
\* from a sleep between checks, a liveness probe, a backoff wait or a
\* connect attempt alike.
C19_MonitoringTerminates ==
    ~should_reconnect ~> pc["mon"] \in {"off", "done"}

\* the task ended inside a reconnect sequence that disconnect() cut short
C19_Witness ==
    /\ ~should_reconnect
    /\ pc["mon"] = "done"
    /\ stopReason = "reconnect_failed"
    /\ seqAttempts \in 1..(MAX_RECONNECT_ATTEMPTS - 1)

\* the caller's connect() has returned True
ConnectReturnedTrue ==
    callOp = "connect" /\ pc["call"] = "idle" /\ callResult = "true"

\* C20: when connect() has returned True with is_connected True, the initial
\* battery read and both subscriptions have succeeded.
C20_ConnectedOnlyAfterSetup ==
    (ConnectReturnedTrue /\ is_connected)
        => /\ data.battery # None
           /\ callbacks = {"HR_MEASUREMENT", "BATTERY"}

(***************************************************************************)
(* The relay on the clock.  SpecRelay is main() with event-loop time       *)
(* followed and every connect attempt succeeding: a failed attempt leaves  *)
(* is_connected False and the collector as it is, which is all the relay   *)
(* task and main()'s loop read of the manager, so to them it is a          *)
(* handshake that takes longer.                                            *)
(***************************************************************************)
InitRelay ==
    InitState /\ dec = NoDecode /\ clk = [ClockOff EXCEPT !.on = TRUE]

NextRelay ==
    \/ InitialConnect
    \/ \E p \in Procs : HandshakeOk(p)
    \/ \E p \in Procs : BatteryRead(p)
    \/ \E p \in Procs : SubscribeHr(p)
    \/ \E p \in Procs : SubscribeBattery(p)
    \/ \E p \in Procs : CleanupDone(p)
    \/ StartMonitoring
    \/ MonitorTick
    \/ ProbeOk
    \/ ProbeFail
    \/ NotifyBattery
    \/ SupervisorTick
    \/ RelayTick
    \/ PostDone
    \/ RelayCancelled
    \/ Tick

SpecRelay == InitRelay /\ [][NextRelay]_vars

(***************************************************************************)
(* C21 .. C24                                                              *)
(***************************************************************************)
\* the relay task calls send_to_api (line 280)
RelayPosts == api_task.pc = "wait" /\ api_task'.pc = "posting"

\* C21: at most one relay task is live, and a call of the sink comes at
\* least API_SEND_INTERVAL after the call before it, whether the same task
\* made that one or a task cancelled since.
C21_RelayRateLimited ==
    /\ [](clk.live <= 1)
    /\ [][RelayPosts => \/ clk.sincePost = None
                        \/ clk.sincePost >= API_SEND_INTERVAL]_vars

\* the second relay task, on the collector of a reconnect, has called the
\* sink after a POST of the first task
C21_Witness ==
    /\ clk.on
    /\ clk.gen = 2
    /\ clk.live = 1
    /\ api_task.pc = "posting"
    /\ ~api_task.stale
    /\ clk.sincePost = 0
    /\ clk.sink # "none"

\* C22: a POST that raised or returned another status than 200 leaves the
\* relay task in its loop, asleep for RELAY_SLEEP before its next tick, and
\* every tick posts the snapshot as it is at that tick.
C22_SinkFailureNotFatal ==
    /\ [][(PostDone /\ clk'.sink \in {"status", "raised"})
            => /\ api_task'.pc = "wait"
               /\ clk'.relayWait = RELAY_SLEEP]_vars
    /\ [][RelayPosts
            => payload' = (IF api_task.stale THEN staleData ELSE data)]_vars

\* the task whose POST raised posts again, a snapshot with a newer battery
\* level
C22_Witness ==
    /\ clk.on
    /\ clk.sink = "raised"
    /\ clk.gen = 1
    /\ api_task.pc = "posting"
    /\ clk.sincePost = 0
    /\ payload.battery = 80

(***************************************************************************)
(* SpecNotify: the manager under its monitoring loop and the notification  *)
(* callbacks of its collector, each call of parse_hrm followed in dec.     *)
(***************************************************************************)
InitNotify ==
    InitState /\ dec = [NoDecode EXCEPT !.kind = "callback"] /\ clk = ClockOff

NextNotify ==
    \/ InitialConnect
    \/ \E p \in Procs : HandshakeOk(p)
    \/ \E p \in Procs : HandshakeFail(p)
    \/ \E p \in Procs : BatteryRead(p)
    \/ \E p \in Procs : SubscribeHr(p)
    \/ \E p \in Procs : SubscribeBattery(p)
    \/ \E p \in Procs : CleanupDone(p)
    \/ \E p \in Procs : BackoffDone(p)
    \/ StartMonitoring
    \/ MonitorTick
    \/ ProbeOk
    \/ ProbeFail
    \/ NotifyHr
    \/ NotifyBattery

SpecNotify == InitNotify /\ [][NextNotify]_vars

\* C23: the heart rate and the RR list of a collector are those of the last
\* HR notification it decoded (unset before the first), and a notification
\* whose decode fails changes neither the snapshot nor is_connected.
C23_LastDecodedWins ==
    /\ [](FollowsCallback =>
            IF dec.lastOk = <<>>
            THEN data.hr = None /\ data.rr_intervals = NoneList
            ELSE /\ data.hr = parse_hrm(dec.lastOk).hr
                 /\ data.rr_intervals = parse_hrm(dec.lastOk).rrs)
    /\ [][(NotifyHr /\ ~dec'.out.ok)
            => data' = data /\ is_connected' = is_connected]_vars

\* the last notification was a byte short; the snapshot still holds the one
\* decoded before it and the battery level
C23_Witness ==
    /\ FollowsCallback
    /\ dec.rx = <<1, 75>>
    /\ ~dec.out.ok
    /\ dec.lastOk = <<16, 0, 0, 0>>
    /\ data.hr = 0
    /\ data.rr_intervals = <<0>>
    /\ data.battery = 80
    /\ is_connected

\* the attempt counter stands at its maximum: a reconnect sequence was
\* exhausted and no connect() has succeeded since
Exhausted == reconnect_attempts = MAX_RECONNECT_ATTEMPTS

\* C24: with the attempt counter at its maximum the manager is not
\* connected; a call of reconnect() returns False at once and starts no
\* connect attempt; and the counter leaves its maximum only where the
\* handshake of a connect() the caller called succeeds.
C24_FailedNeedsConnect ==
    /\ [](Exhausted => ~is_connected)
    /\ [][(Exhausted /\ CallReconnect)
            => /\ pc'["call"] = "idle"
               /\ callResult' = "false"
               /\ client' = client
               /\ linkUp' = linkUp
               /\ seqAttempts' \in {0, seqAttempts}]_vars
    /\ [][(Exhausted /\ ~Exhausted')
            => /\ callOp = "connect"
               /\ pc["call"] = "c_handshake"
               /\ pc'["call"] = "c_battery"
               /\ is_connected']_vars

\* reconnect() called in Failed has returned False without an attempt
C24_Witness ==
    /\ Exhausted
    /\ should_reconnect
    /\ ~is_connected
    /\ callOp = "reconnect"
    /\ pc["call"] = "idle"
    /\ callResult = "false"
    /\ seqAttempts = 0
    /\ pc["mon"] = "done"
    /\ stopReason = "reconnect_failed"

====
